---- MODULE Spec2Model ----
(***************************************************************************)
(* TutorialProvider (src/lib/TutorialProvider.tsx): the step-navigation    *)
(* state machine of the walkthrough, its resize subscription and the       *)
(* tooltip placement computed by updateTooltipPosition.                    *)
(*                                                                         *)
(* React state (activeStep, curTooltipStyle) is written by the handlers at *)
(* once; the closures of the last committed render (handleNext,            *)
(* handleClose, updateTooltipPosition) keep the activeStep they captured   *)
(* until Render commits the next one, and useEffect runs after the commit. *)
(* A callback created by useCallback([activeStep, steps]) is identified by *)
(* the activeStep it captured: steps never changes during a mount, and the *)
(* effect of each commit runs before the next render.                      *)
(*                                                                         *)
(* Lengths are counted in half pixels, so that offsetHeight / 2 and        *)
(* offsetWidth / 2 are exact.                                              *)
(***************************************************************************)
EXTENDS Integers, Sequences, FiniteSets, TLC

VARIABLES
    steps,            \* props.steps
    showTooltip,      \* props.showTooltip
    activeStep,       \* useState: activeStep
    curTooltipStyle,  \* useState: curTooltipStyle
    committed,        \* a render has been committed
    renderedStep,     \* activeStep captured by the committed render's closures
    dirty,            \* a state update awaits a render
    effectDep,        \* the updateTooltipPosition the effect last ran for (<= 1)
    listeners,        \* window's 'resize' listeners, in registration order
    status,           \* "mounted", "unmounted" or "crashed"
    present,          \* ids that document.getElementById finds
    geom,             \* current layout: target boxes and the window
    lastOp,           \* the operation that produced this state
    pin,              \* PlacementSpec: the input of the placement computation
    pout              \* PlacementSpec: its result, once computed

vars == <<steps, showTooltip, activeStep, curTooltipStyle, committed, renderedStep,
          dirty, effectDep, listeners, status, present, geom, lastOp, pin, pout>>

(***************************************************************************)
(* Bounds                                                                  *)
(***************************************************************************)
MaxSteps == 2
MaxOvershoot == 1

Px(n) == 2 * n

Min(a, b) == IF a < b THEN a ELSE b
Max(a, b) == IF a > b THEN a ELSE b

(***************************************************************************)
(* Steps.  An optional field that is omitted is absent from the record.    *)
(***************************************************************************)
VerticalPosition == {"top", "bottom", "middle"}
HorizontalPosition == {"left", "right", "center"}

Opt(name, values) == {<<>>} \cup {[f \in {name} |-> v] : v \in values}

Has(step, field) == field \in DOMAIN step

\* a ?? b
Coalesce(step, field, default) == IF Has(step, field) THEN step[field] ELSE default

(***************************************************************************)
(* Styles.  A CSS length is a number with its unit; top: 0 of the default  *)
(* style is a bare number, `${top}px` is a number of pixels.               *)
(***************************************************************************)
CssNumber(n) == [n |-> n, unit |-> ""]
TemplatePx(n) == [n |-> n, unit |-> "px"]

\* { ...base, ...over }
Spread(base, over) ==
    [p \in (DOMAIN base) \cup (DOMAIN over) |->
        IF p \in DOMAIN over THEN over[p] ELSE base[p]]

defaultTooltipStyle ==
    Spread(<<>>, [position |-> "absolute",
                  maxWidth |-> "300px",
                  top |-> CssNumber(0),
                  left |-> CssNumber(0),
                  color |-> "#f5f5f5"])

\* steps[i] is defined
Defined(seq, i) == i \in 0 .. (Len(seq) - 1)

\* steps[i]?.tooltipStyle, as something to spread
TooltipStyleOf(seq, i) ==
    IF Defined(seq, i) /\ Has(seq[i + 1], "tooltipStyle")
    THEN seq[i + 1].tooltipStyle
    ELSE <<>>

InitialTooltipStyle(seq, i) == Spread(defaultTooltipStyle, TooltipStyleOf(seq, i))

(***************************************************************************)
(* Placement: the arithmetic of updateTooltipPosition.                     *)
(***************************************************************************)
tooltipWidth == 300
centerOffset == Px(tooltipWidth) \div 2

\* a || b on numbers
OrElse(a, b) == IF a # 0 THEN a ELSE b

ScrollTop(win) == OrElse(win.pageYOffset, OrElse(win.docScrollTop, OrElse(win.bodyScrollTop, 0)))
ScrollLeft(win) == OrElse(win.pageXOffset, OrElse(win.docScrollLeft, OrElse(win.bodyScrollLeft, 0)))

\* top and bottom exchanged
VerticalAdjustSwapped(step, target) ==
    IF Has(step, "verticalPosition") /\ step.verticalPosition = "top"
    THEN target.offsetHeight
    ELSE IF Has(step, "verticalPosition") /\ step.verticalPosition = "bottom"
    THEN 0 - target.offsetHeight
    ELSE target.offsetHeight \div 2

VerticalAdjust(step, target) ==
    IF Has(step, "verticalPosition") /\ step.verticalPosition = "top"
    THEN 0 - target.offsetHeight
    ELSE IF Has(step, "verticalPosition") /\ step.verticalPosition = "bottom"
    THEN target.offsetHeight
    ELSE target.offsetHeight \div 2

HorizontalAdjust(step, target) ==
    IF Has(step, "horizontalPosition") /\ step.horizontalPosition = "left"
    THEN 0 - target.offsetWidth
    ELSE IF Has(step, "horizontalPosition") /\ step.horizontalPosition = "right"
    THEN target.offsetWidth
    ELSE target.offsetWidth \div 2

\* if (step.horizontalPosition === 'center') left -= centerOffset
CenterCorrection(step) ==
    IF Has(step, "horizontalPosition") /\ step.horizontalPosition = "center"
    THEN centerOffset
    ELSE 0

\* the right edge of the window is not enforced
ClampLeftNoRightEdge(left, win) == Max(0, left)

ClampLeft(left, win) == Max(0, Min(left, win.innerWidth - Px(tooltipWidth)))
ClampTop(top, win) == Max(0, Min(top, win.innerHeight))

PlacementTop(step, target, win) ==
    ClampTop(target.top + ScrollTop(win) + VerticalAdjust(step, target)
                 + Coalesce(step, "verticalOffset", 0),
             win)

PlacementLeft(step, target, win) ==
    ClampLeft(target.left + ScrollLeft(win) + HorizontalAdjust(step, target)
                  + Coalesce(step, "horizontalOffset", 0) - CenterCorrection(step),
              win)

Placement(step, target, win) ==
    [top |-> PlacementTop(step, target, win), left |-> PlacementLeft(step, target, win)]

\* an updater that does not spread the previous style
PlacedStyleDropsPrev(prevStyle, place) ==
    Spread(defaultTooltipStyle, [position |-> "absolute",
                                 top |-> TemplatePx(place.top),
                                 left |-> TemplatePx(place.left)])

\* the updater passed to setCurrentTooltipStyle
PlacedStyle(prevStyle, place) ==
    Spread(prevStyle, [position |-> "absolute",
                       top |-> TemplatePx(place.top),
                       left |-> TemplatePx(place.left)])

(***************************************************************************)
(* The inputs the model draws from.                                        *)
(***************************************************************************)
ElementIds == {"a1", "a2"}

Box(top, left, width, height) ==
    [top |-> top, left |-> left, offsetWidth |-> width, offsetHeight |-> height]

Window(width, height, scrollX, scrollY) ==
    [innerWidth |-> width, innerHeight |-> height,
     pageXOffset |-> scrollX, pageYOffset |-> scrollY,
     docScrollLeft |-> scrollX, docScrollTop |-> scrollY,
     bodyScrollLeft |-> 0, bodyScrollTop |-> 0]

\* a browser without pageXOffset / pageYOffset: the || chain falls through
LegacyWindow(width, height, scrollX, scrollY) ==
    [innerWidth |-> width, innerHeight |-> height,
     pageXOffset |-> 0, pageYOffset |-> 0,
     docScrollLeft |-> 0, docScrollTop |-> 0,
     bodyScrollLeft |-> scrollX, bodyScrollTop |-> scrollY]

StepPool ==
    { [elementId |-> "a1", text |-> "first",
       verticalPosition |-> "bottom", horizontalPosition |-> "right",
       verticalOffset |-> Px(15),
       tooltipStyle |-> [color |-> "yellow", position |-> "fixed",
                         top |-> TemplatePx(Px(10))]],
      [elementId |-> "a2", text |-> "second"] }

StepSequences == UNION {[1 .. n -> StepPool] : n \in 0 .. MaxSteps}

WideLayout ==
    [target |-> [id \in ElementIds |->
                    IF id = "a1" THEN Box(Px(100), Px(50), Px(40), Px(20))
                                 ELSE Box(Px(300), Px(700), Px(41), Px(21))],
     win |-> Window(Px(800), Px(600), 0, 0)]

NarrowLayout ==
    [target |-> [id \in ElementIds |->
                    IF id = "a1" THEN Box(Px(20) + 1, Px(10), Px(40), Px(20))
                                 ELSE Box(Px(380), Px(150), Px(41), Px(21))],
     win |-> Window(Px(200), Px(400), 0, Px(50))]

Layouts == {WideLayout, NarrowLayout}

(***************************************************************************)
(* updateTooltipPosition, as the closure that captured activeStep = cb.    *)
(***************************************************************************)
UpdateOutcome(cb, pres) ==
    IF cb < 0 THEN "inactive"
    ELSE IF ~Defined(steps, cb) THEN "throws"
    ELSE IF steps[cb + 1].elementId \notin pres THEN "missing"
    ELSE "placed"

\* a target that is not found is placed at the origin instead of being skipped
UpdateTooltipPositionNoTargetCheck(cb, style, pres, g) ==
    IF UpdateOutcome(cb, pres) = "placed"
    THEN PlacedStyle(style, Placement(steps[cb + 1], g.target[steps[cb + 1].elementId], g.win))
    ELSE IF UpdateOutcome(cb, pres) = "missing"
    THEN PlacedStyle(style, [top |-> 0, left |-> 0])
    ELSE style

UpdateTooltipPosition(cb, style, pres, g) ==
    IF UpdateOutcome(cb, pres) = "placed"
    THEN PlacedStyle(style, Placement(steps[cb + 1], g.target[steps[cb + 1].elementId], g.win))
    ELSE style

Call(cb, pres) == [cb |-> cb, outcome |-> UpdateOutcome(cb, pres)]

(***************************************************************************)
(* window.addEventListener / removeEventListener for 'resize'.             *)
(***************************************************************************)
AddEventListener(ls, cb) ==
    IF \E i \in 1 .. Len(ls) : ls[i] = cb THEN ls ELSE Append(ls, cb)

RemoveEventListener(ls, cb) == SelectSeq(ls, LAMBDA c : c # cb)

RECURSIVE RemoveAll(_, _)
RemoveAll(ls, cbs) ==
    IF cbs = <<>> THEN ls ELSE RemoveAll(RemoveEventListener(ls, Head(cbs)), Tail(cbs))

\* the resize event: every listener runs, in registration order
RECURSIVE Dispatch(_, _, _, _)
Dispatch(ls, style, pres, g) ==
    IF ls = <<>> THEN style
    ELSE Dispatch(Tail(ls), UpdateTooltipPosition(Head(ls), style, pres, g), pres, g)

Calls(ls, pres) == [i \in 1 .. Len(ls) |-> Call(ls[i], pres)]

Placed(calls) == \E i \in 1 .. Len(calls) : calls[i].outcome = "placed"

\* the operation, the updateTooltipPosition calls it made, and activeStep before it
Op(name, calls) == [op |-> name, calls |-> calls, prev |-> activeStep]

(***************************************************************************)
(* The component.                                                          *)
(***************************************************************************)
\* useState(showTooltip ? 0 : -1)
InitialActiveStep(show) == IF show THEN 0 ELSE -1

EffectPending == committed /\ effectDep # <<renderedStep>>

Init ==
    /\ steps \in StepSequences
    /\ showTooltip \in BOOLEAN
    /\ activeStep = InitialActiveStep(showTooltip)
    /\ curTooltipStyle = InitialTooltipStyle(steps, activeStep)
    /\ committed = FALSE
    /\ renderedStep = activeStep
    /\ dirty = TRUE
    /\ effectDep = <<>>
    /\ listeners = <<>>
    /\ status = "mounted"
    /\ present \in SUBSET ElementIds
    /\ geom \in Layouts
    /\ lastOp = [op |-> "init", calls |-> <<>>, prev |-> InitialActiveStep(showTooltip)]
    /\ pin = <<>>
    /\ pout = <<>>

\* the render throws on steps[activeStep].text when steps[activeStep] is undefined
RenderThrows == activeStep >= 0 /\ ~Defined(steps, activeStep)

\* A render of the component with the current state, and its commit.  A render
\* that throws unmounts the tree, which runs the cleanup of the effect.
Render ==
    /\ status = "mounted"
    /\ dirty
    /\ ~EffectPending
    /\ IF RenderThrows
       THEN /\ status' = "crashed"
            /\ listeners' = RemoveAll(listeners, effectDep)
            /\ effectDep' = <<>>
            /\ lastOp' = Op("crash", <<>>)
            /\ UNCHANGED <<committed, renderedStep>>
       ELSE /\ committed' = TRUE
            /\ renderedStep' = activeStep
            /\ lastOp' = Op("render", <<>>)
            /\ UNCHANGED <<status, listeners, effectDep>>
    /\ dirty' = FALSE
    /\ UNCHANGED <<steps, showTooltip, activeStep, curTooltipStyle, present, geom, pin, pout>>

\* the effect without the cleanup it returns
EffectNoCleanup ==
    /\ status = "mounted"
    /\ EffectPending
    /\ curTooltipStyle' = UpdateTooltipPosition(renderedStep, curTooltipStyle, present, geom)
    /\ listeners' = AddEventListener(listeners, renderedStep)
    /\ effectDep' = <<renderedStep>>
    /\ dirty' = (dirty \/ UpdateOutcome(renderedStep, present) = "placed")
    /\ lastOp' = Op("effect", <<Call(renderedStep, present)>>)
    /\ UNCHANGED <<steps, showTooltip, activeStep, committed, renderedStep, status,
                   present, geom, pin, pout>>

\* useEffect(..., [updateTooltipPosition]): the cleanup of the previous run, then
\* updateTooltipPosition() and addEventListener.
Effect ==
    /\ status = "mounted"
    /\ EffectPending
    /\ curTooltipStyle' = UpdateTooltipPosition(renderedStep, curTooltipStyle, present, geom)
    /\ listeners' = AddEventListener(RemoveAll(listeners, effectDep), renderedStep)
    /\ effectDep' = <<renderedStep>>
    /\ dirty' = (dirty \/ UpdateOutcome(renderedStep, present) = "placed")
    /\ lastOp' = Op("effect", <<Call(renderedStep, present)>>)
    /\ UNCHANGED <<steps, showTooltip, activeStep, committed, renderedStep, status,
                   present, geom, pin, pout>>

\* handleClose without its setActiveStep(-1)
CloseBodyKeepsStep ==
    /\ activeStep' = activeStep
    /\ listeners' = RemoveEventListener(listeners, renderedStep)
    /\ dirty' = dirty
    /\ UNCHANGED curTooltipStyle

\* the body of handleClose, with the updateTooltipPosition it captured
CloseBody ==
    /\ activeStep' = -1
    /\ listeners' = RemoveEventListener(listeners, renderedStep)
    /\ dirty' = (dirty \/ activeStep # -1)
    /\ UNCHANGED curTooltipStyle

\* the updater of setActiveStep in handleNext
NextStep(prevStep) == prevStep + 1

HandleClose ==
    /\ status = "mounted"
    /\ committed
    /\ CloseBody
    /\ lastOp' = Op("close", <<>>)
    /\ UNCHANGED <<steps, showTooltip, committed, renderedStep, effectDep, status,
                   present, geom, pin, pout>>

\* the last step, as handleNext tests it on the activeStep it captured
IsLastStep(captured) == captured = Len(steps) - 1

\* handleNext spreading the next override over the style it finds
HandleNextKeepsStyle ==
    /\ status = "mounted"
    /\ committed
    /\ IF IsLastStep(renderedStep)
       THEN CloseBody
       ELSE /\ activeStep < Len(steps) + MaxOvershoot
            /\ activeStep' = NextStep(activeStep)
            /\ curTooltipStyle' = Spread(curTooltipStyle,
                                         TooltipStyleOf(steps, NextStep(activeStep)))
            /\ dirty' = TRUE
            /\ UNCHANGED listeners
    /\ lastOp' = Op("next", <<>>)
    /\ UNCHANGED <<steps, showTooltip, committed, renderedStep, effectDep, status,
                   present, geom, pin, pout>>

HandleNext ==
    /\ status = "mounted"
    /\ committed
    /\ IF IsLastStep(renderedStep)
       THEN CloseBody
       ELSE /\ activeStep < Len(steps) + MaxOvershoot
            /\ activeStep' = NextStep(activeStep)
            /\ curTooltipStyle' = InitialTooltipStyle(steps, NextStep(activeStep))
            /\ dirty' = TRUE
            /\ UNCHANGED listeners
    /\ lastOp' = Op("next", <<>>)
    /\ UNCHANGED <<steps, showTooltip, committed, renderedStep, effectDep, status,
                   present, geom, pin, pout>>

\* The window is resized and the 'resize' event is dispatched.  A state update
\* of a component that is no longer mounted is dropped; once the component is
\* gone, only a resize that still has a listener is followed.
Resize ==
    /\ status = "mounted" \/ listeners # <<>>
    /\ geom' \in Layouts
    /\ curTooltipStyle' = IF status = "mounted"
                          THEN Dispatch(listeners, curTooltipStyle, present, geom')
                          ELSE curTooltipStyle
    /\ dirty' = (dirty \/ (status = "mounted" /\ Placed(Calls(listeners, present))))
    /\ lastOp' = Op("resize", Calls(listeners, present))
    /\ UNCHANGED <<steps, showTooltip, activeStep, committed, renderedStep, effectDep,
                   listeners, status, present, pin, pout>>

\* The page changes without a resize event: elements appear or disappear,
\* the layout or the scroll position changes.
PageChange ==
    /\ status = "mounted"
    /\ \/ /\ \E id \in ElementIds :
                present' = IF id \in present THEN present \ {id} ELSE present \cup {id}
          /\ UNCHANGED geom
       \/ /\ geom' \in Layouts \ {geom}
          /\ UNCHANGED present
    /\ lastOp' = Op("page", <<>>)
    /\ UNCHANGED <<steps, showTooltip, activeStep, curTooltipStyle, committed, renderedStep,
                   dirty, effectDep, listeners, status, pin, pout>>

\* an unmount that runs no cleanup
UnmountNoCleanup ==
    /\ status = "mounted"
    /\ committed
    /\ ~EffectPending
    /\ status' = "unmounted"
    /\ effectDep' = <<>>
    /\ lastOp' = Op("unmount", <<>>)
    /\ UNCHANGED <<steps, showTooltip, activeStep, curTooltipStyle, committed, renderedStep,
                   dirty, listeners, present, geom, pin, pout>>

\* The provider is unmounted: the cleanup of the effect runs.
Unmount ==
    /\ status = "mounted"
    /\ committed
    /\ ~EffectPending
    /\ status' = "unmounted"
    /\ listeners' = RemoveAll(listeners, effectDep)
    /\ effectDep' = <<>>
    /\ lastOp' = Op("unmount", <<>>)
    /\ UNCHANGED <<steps, showTooltip, activeStep, curTooltipStyle, committed, renderedStep,
                   dirty, present, geom, pin, pout>>

Next ==
    \/ Render
    \/ Effect
    \/ HandleClose
    \/ HandleNext
    \/ Resize
    \/ PageChange
    \/ Unmount

Spec == Init /\ [][Next]_vars

\* The walkthrough driven by advance() and resize events only: close() is
\* reached through handleNext on the last step, never called on its own.
NavigationNext ==
    \/ Render
    \/ Effect
    \/ HandleNext
    \/ Resize
    \/ PageChange
    \/ Unmount

NavigationSpec == Init /\ [][NavigationNext]_vars

\* The page is static: its layout changes only with a resize of the window,
\* and no element appears or disappears.
StaticPageNext ==
    \/ Render
    \/ Effect
    \/ HandleClose
    \/ HandleNext
    \/ Resize
    \/ Unmount

StaticPageSpec == Init /\ [][StaticPageNext]_vars

(***************************************************************************)
(* The placement computation on its own: one step, one target box, one     *)
(* window, drawn from pools that cover every anchor, offsets of both       *)
(* signs, targets at the edges and windows narrower than tooltipWidth.     *)
(***************************************************************************)
PlacementSteps ==
    { [elementId |-> "a1", text |-> "first"] @@ v @@ h @@ vo @@ ho :
        v \in Opt("verticalPosition", VerticalPosition),
        h \in Opt("horizontalPosition", HorizontalPosition),
        vo \in Opt("verticalOffset", {0, Px(15), 0 - Px(30)}),
        ho \in Opt("horizontalOffset", {0, Px(15)}) }

Targets ==
    { Box(Px(100), Px(50), Px(40), Px(20)),
      Box(Px(590), Px(790), Px(41), Px(21)),
      Box(Px(20) + 1, Px(500) + 1, Px(40), Px(20)),
      Box(0 - Px(50), 0 - Px(30), Px(40), Px(20)),
      Box(Px(10), Px(500), Px(300), Px(100)) }

Windows ==
    { Window(Px(800), Px(600), 0, 0),
      Window(Px(200), Px(400), 0, Px(50)),
      Window(Px(1200), Px(900), Px(30), Px(1000)),
      Window(Px(300), 0, 0, 0),
      LegacyWindow(Px(800), Px(600), Px(20), Px(40)) }

PlacementInputs == [step : PlacementSteps, target : Targets, win : Windows]

ComponentIdle ==
    /\ steps = <<>>
    /\ showTooltip = FALSE
    /\ activeStep = -1
    /\ curTooltipStyle = defaultTooltipStyle
    /\ committed = FALSE
    /\ renderedStep = -1
    /\ dirty = FALSE
    /\ effectDep = <<>>
    /\ listeners = <<>>
    /\ status = "unmounted"
    /\ present = {}
    /\ geom = WideLayout
    /\ lastOp = [op |-> "init", calls |-> <<>>, prev |-> -1]

ComponentVars ==
    <<steps, showTooltip, activeStep, curTooltipStyle, committed, renderedStep,
      dirty, effectDep, listeners, status, present, geom, lastOp>>

PlacementInit ==
    /\ ComponentIdle
    /\ pin \in PlacementInputs
    /\ pout = <<>>

Compute ==
    /\ pout = <<>>
    /\ pout' = <<Placement(pin.step, pin.target, pin.win)>>
    /\ UNCHANGED <<pin, ComponentVars>>

\* the page is laid out anew and placement is to be computed again
Relayout ==
    /\ pout # <<>>
    /\ \E t \in Targets, w \in Windows : pin' = [pin EXCEPT !.target = t, !.win = w]
    /\ pout' = <<>>
    /\ UNCHANGED ComponentVars

PlacementNext ==
    \/ Compute
    \/ Relayout

PlacementSpec == PlacementInit /\ [][PlacementNext]_vars

(***************************************************************************)
(* Claims                                                                  *)
(***************************************************************************)
Length == Len(steps)
Inactive == activeStep = -1
Active == Defined(steps, activeStep)

\* C1: in every reachable state activeStep is -1 or a valid index into steps.
C1_ActiveStepInRange == activeStep \in -1 .. (Length - 1)

\* a tooltip that always shows Next
OfferedAlways(op) == renderedStep >= 0

\* the control that invokes the handler is on screen: Close whenever a step is
\* rendered, Next unless the rendered step is the last
Offered(op) ==
    /\ renderedStep >= 0
    /\ op = "next" => renderedStep # Length - 1

\* C2: advance() from Active(i) yields Active(i+1) for i <= length-2 and
\* Inactive for i = length-1.
C2_AdvanceFromActive ==
    [][(lastOp'.op = "next" /\ Active)
          => activeStep' = IF activeStep = Length - 1 THEN -1 ELSE activeStep + 1]_vars

\* C3: close() from Active(i), for any i, yields Inactive.
C3_CloseFromActive ==
    [][(lastOp'.op = "close" /\ Active) => activeStep' = -1]_vars

C3_Witness ==
    /\ lastOp.op = "close"
    /\ Defined(steps, lastOp.prev)
    /\ lastOp.prev > 0
    /\ Inactive

\* C4: advance() or close() called while Inactive leaves activeStep at -1.
C4_NoOpWhileInactive ==
    [][(lastOp'.op \in {"next", "close"} /\ Inactive) => activeStep' = -1]_vars

Computed == pout # <<>>

\* C5 (as claimed): the computed placement has 0 <= top <= viewportHeight and
\* 0 <= left <= viewportWidth - assumedWidth, also in a viewport narrower than
\* the assumed width.
C5_PlacementInViewport_Claimed ==
    Computed =>
        /\ 0 <= pout[1].top /\ pout[1].top <= pin.win.innerHeight
        /\ 0 <= pout[1].left /\ pout[1].left <= pin.win.innerWidth - Px(tooltipWidth)

\* C5 (amended): the computed placement has 0 <= top <= viewportHeight and
\* 0 <= left <= max(0, viewportWidth - assumedWidth): in a viewport narrower
\* than the assumed width left is 0.
C5_PlacementInViewport ==
    Computed =>
        /\ 0 <= pout[1].top /\ pout[1].top <= pin.win.innerHeight
        /\ 0 <= pout[1].left
        /\ pout[1].left <= Max(0, pin.win.innerWidth - Px(tooltipWidth))

C5_Witness ==
    /\ Computed
    /\ pin.win.innerWidth < Px(tooltipWidth)
    /\ pin.target.left + pin.target.offsetWidth > pin.win.innerWidth
    /\ pout[1].left = 0

\* the step with each omitted anchor written out as Middle / Center
ExplicitAnchors(step) ==
    step @@ [verticalPosition |-> "middle", horizontalPosition |-> "center"]

\* C6: a step whose anchors are omitted is placed exactly as the step with the
\* anchors Middle and Center written out.
C6_OmittedAnchorIsDefault ==
    Computed => pout[1] = Placement(ExplicitAnchors(pin.step), pin.target, pin.win)

GoldenCase ==
    /\ pin.target = Box(Px(100), Px(50), Px(40), Px(20))
    /\ pin.win = Window(Px(800), Px(600), 0, 0)
    /\ Coalesce(pin.step, "verticalOffset", 0) = 0
    /\ Coalesce(pin.step, "horizontalOffset", 0) = 0

AnchoredAt(field, anchor) == Has(pin.step, field) /\ pin.step[field] = anchor

\* C7: for the target box {top:100, left:50, width:40, height:20}, no scroll,
\* no offsets and the viewport 800x600: Top -> top 80, Bottom -> top 120,
\* Middle -> top 110, Left -> left 10, Right -> left 90, Center -> left 0.
C7_AnchorSymmetry ==
    (Computed /\ GoldenCase) =>
        /\ AnchoredAt("verticalPosition", "top") => pout[1].top = Px(80)
        /\ AnchoredAt("verticalPosition", "bottom") => pout[1].top = Px(120)
        /\ AnchoredAt("verticalPosition", "middle") => pout[1].top = Px(110)
        /\ AnchoredAt("horizontalPosition", "left") => pout[1].left = Px(10)
        /\ AnchoredAt("horizontalPosition", "right") => pout[1].left = Px(90)
        /\ AnchoredAt("horizontalPosition", "center") => pout[1].left = 0

C7_Witness ==
    /\ Computed
    /\ GoldenCase
    /\ AnchoredAt("verticalPosition", "top")
    /\ AnchoredAt("horizontalPosition", "center")
    /\ pout[1] = [top |-> Px(80), left |-> 0]

\* every lookup of a target made by the operation failed
TargetNotFound(op) ==
    /\ op.op \in {"resize", "effect"}
    /\ op.calls # <<>>
    /\ \A i \in 1 .. Len(op.calls) : op.calls[i].outcome = "missing"

PlacementHeld ==
    /\ curTooltipStyle.top.unit = "px"
    /\ curTooltipStyle.left.unit = "px"
    /\ curTooltipStyle.left # Spread(defaultTooltipStyle, TooltipStyleOf(steps, activeStep)).left

\* C9: advance() from Active(i) to a step i+1 whose target is not found reaches
\* Active(i+1) and keeps the top and left held before the transition.
C9_AdvanceToMissingTargetKeepsPlacement ==
    [][(/\ lastOp'.op = "next"
        /\ Defined(steps, activeStep)
        /\ Defined(steps, activeStep + 1)
        /\ PlacementHeld
        /\ steps[activeStep + 2].elementId \notin present)
          => /\ activeStep' = activeStep + 1
             /\ curTooltipStyle'.top = curTooltipStyle.top
             /\ curTooltipStyle'.left = curTooltipStyle.left]_vars

\* nothing awaits a render or an effect
Settled == status = "mounted" /\ committed /\ ~dirty /\ ~EffectPending

\* C10: no resize subscription is live while the walkthrough is Inactive and
\* settled.
C10_NoSubscriptionWhileInactive ==
    (Settled /\ Inactive) => listeners = <<>>

\* C11: in every settled state in which the walkthrough is Active exactly one
\* resize subscription is live, across any sequence of advance() and resize
\* events.
C11_OneSubscriptionWhileActive ==
    (Settled /\ Active) => Len(listeners) = 1

C11_Witness ==
    /\ Settled
    /\ Active
    /\ activeStep > 0
    /\ listeners = <<activeStep>>

\* C12: started active at step 0, each advance() from Active(i) moves to
\* Active(i+1), the advance() from the last step moves to Inactive, and while
\* the walkthrough is Inactive no resize notification causes a placement
\* recompute.
C12_RunToEndThenNoRecompute ==
    [][/\ (showTooltip /\ lastOp'.op = "next" /\ Active)
            => activeStep' = IF activeStep = Length - 1 THEN -1 ELSE activeStep + 1
       /\ (lastOp'.op = "resize" /\ Inactive) => ~Placed(lastOp'.calls)]_vars

\* C13: once the walkthrough is Inactive it stays Inactive.
C13_InactiveIsFinal ==
    [][Inactive => activeStep' = -1]_vars

\* C14: once the provider is destroyed, no resize listener it registered is
\* left on the window.
C14_NoListenerAfterUnmount ==
    status # "mounted" => listeners = <<>>

C14_Witness ==
    /\ status = "unmounted"
    /\ lastOp.op = "unmount"
    /\ Active
    /\ activeStep > 0
    /\ listeners = <<>>

\* C15: a resize notification delivered while a step is active, between two
\* advance() calls, recomputes placement only for the step that is current
\* when it is delivered, never for a step that was active before.
C15_ResizePlacesCurrentStep ==
    [][(lastOp'.op = "resize" /\ Active)
          => \A i \in 1 .. Len(lastOp'.calls) :
                lastOp'.calls[i].outcome = "placed" => lastOp'.calls[i].cb = activeStep]_vars

\* the placement of the active step in the current layout, as the style holds it
CurrentPlacement ==
    Placement(steps[activeStep + 1], geom.target[steps[activeStep + 1].elementId], geom.win)

TargetPresent == Active /\ steps[activeStep + 1].elementId \in present

\* C16: once a transition into Active(i) whose target exists has settled, the
\* stored top and left are the placement computed for step i from its
\* target's geometry, not the placement of another step or the default.
C16_SettledPlacementIsCurrent ==
    (Settled /\ TargetPresent)
        => /\ curTooltipStyle.top = TemplatePx(CurrentPlacement.top)
           /\ curTooltipStyle.left = TemplatePx(CurrentPlacement.left)

\* the properties updateTooltipPosition writes
PlacementProperties == {"position", "top", "left"}

SameExceptPlacement(a, b) ==
    /\ DOMAIN a = DOMAIN b
    /\ \A p \in (DOMAIN a) \ PlacementProperties : a[p] = b[p]

\* C17: a resize notification changes neither activeStep nor steps, and of the
\* stored style only the properties of the placement (position, top, left);
\* activeStep is written only by advance() and close().
C17_ResizeWritesPlacementOnly ==
    [][/\ lastOp'.op = "resize"
            => /\ activeStep' = activeStep
               /\ steps' = steps
               /\ SameExceptPlacement(curTooltipStyle', curTooltipStyle)
       /\ activeStep' # activeStep => lastOp'.op \in {"next", "close"}]_vars

C17_Witness ==
    /\ lastOp.op = "resize"
    /\ Placed(lastOp.calls)
    /\ Active
    /\ curTooltipStyle.color = "yellow"
    /\ curTooltipStyle.top.unit = "px"

\* the default style shallow-merged with the override of step i, property by
\* property
MergedProperties(i) == (DOMAIN defaultTooltipStyle) \cup (DOMAIN TooltipStyleOf(steps, i))

MergedProperty(i, p) ==
    IF p \in DOMAIN TooltipStyleOf(steps, i)
    THEN TooltipStyleOf(steps, i)[p]
    ELSE defaultTooltipStyle[p]

\* C18 (as claimed): in Active(i), once the transition has settled, every
\* property of the tooltip style has the value of the default style merged
\* with the override of step i.
C18_StyleIsDefaultMergedWithOverride_Claimed ==
    (Settled /\ Active)
        => /\ DOMAIN curTooltipStyle = MergedProperties(activeStep)
           /\ \A p \in MergedProperties(activeStep) :
                 curTooltipStyle[p] = MergedProperty(activeStep, p)

\* C18: in Active(i) every property of the tooltip style other than position,
\* top and left has the value of the default style merged with the override
\* of step i, so nothing of an earlier step's override remains; position, top
\* and left have the merged value right after the transition, until a
\* placement is computed.
C18_StyleIsDefaultMergedWithOverride ==
    Active
        => /\ DOMAIN curTooltipStyle = MergedProperties(activeStep)
           /\ \A p \in MergedProperties(activeStep) \ PlacementProperties :
                 curTooltipStyle[p] = MergedProperty(activeStep, p)
           /\ lastOp.op \in {"init", "next"}
                 => \A p \in PlacementProperties :
                       curTooltipStyle[p] = MergedProperty(activeStep, p)

C18_Witness ==
    /\ status = "mounted"
    /\ activeStep = 1
    /\ Active
    /\ Has(steps[1], "tooltipStyle")
    /\ ~Has(steps[2], "tooltipStyle")
    /\ lastOp.op = "effect"
    /\ Placed(lastOp.calls)
    /\ curTooltipStyle.color = defaultTooltipStyle.color

\* the handler that is called was captured at a render before the last write
\* of activeStep
StaleHandler == committed /\ renderedStep # activeStep

\* C19: advance() or close() through a control of an earlier render, still on
\* screen, gives the activeStep that the call gives one render at a time: from
\* Active(i), advance() gives i+1, or Inactive on the last step, and close()
\* gives Inactive; after close() the walkthrough stays Inactive.
C19_StaleHandlerSameResult ==
    [][(lastOp'.op \in {"next", "close"} /\ StaleHandler /\ Offered(lastOp'.op))
          => /\ Active => activeStep' = IF lastOp'.op = "close" \/ IsLastStep(activeStep)
                                        THEN -1
                                        ELSE NextStep(activeStep)
             /\ Inactive => activeStep' = -1]_vars

\* the screen shows the render of the current state
UpToDate == status = "mounted" /\ committed /\ ~dirty

====
